---- MODULE Spec2Model ----
(***************************************************************************)
(* Model of the mate_selection crate (src/src/lib.rs): the weight          *)
(* transforms of the six public strategies, the trait's pdf / select /     *)
(* pairs operations, Random's own select, reduce_repeats and               *)
(* transmute_vec_to_pairs.                                                 *)
(*                                                                         *)
(* Numbers.  An f64 is a record [nan, v].  A score v stands for the real   *)
(* number v; a weight v stands for v / Scale (fixed point), and a result   *)
(* that is not a multiple of 1 / Scale is rounded up, so that the sign of  *)
(* every weight is the sign the exact computation gives.  f64::NAN is the  *)
(* positive quiet NaN, the greatest element of f64::total_cmp.             *)
(* Strategy parameters are exact fractions num / den; a parameter that is  *)
(* infinite or NaN has finite = FALSE.                                     *)
(*                                                                         *)
(* Population indices are 0-based as in the source; TLA+ sequences are     *)
(* 1-based, so the element of index i is seq[i + 1].                       *)
(***************************************************************************)
EXTENDS Integers, Sequences, FiniteSets, TLC

\* ---------------------------------------------------------------- bounds
MaxPop == 3        \* largest population (length of scores)
MaxAmount == 2     \* largest requested amount (pairs, or indices of select)
RngDen == 3        \* the uniform float of the random source is r / RngDen
Scale == 24        \* a weight is a multiple of 1 / Scale

\* ---------------------------------------------------------------- f64
Num(x) == [nan |-> FALSE, v |-> x]
NaN == [nan |-> TRUE, v |-> 0]

ScoreVals == {Num(0 - 1), Num(1), Num(2), NaN}

\* Ge with the comparison of f64::total_cmp, where NaN is the greatest value.
GeTotal(x, y) == IF y.nan THEN x.nan ELSE (x.nan \/ x.v >= y.v)

\* IEEE `>=`: false as soon as one side is NaN.
Ge(x, y) == ~x.nan /\ ~y.nan /\ x.v >= y.v

\* f64::max(x, 0.0): NaN is ignored in favour of the other operand.
Max0(x) == IF x.nan \/ x.v < 0 THEN Num(0) ELSE x

\* f64::total_cmp(x, y) /= Greater.
TotalLe(x, y) == IF x.nan THEN y.nan ELSE (y.nan \/ x.v <= y.v)

Min2(a, b) == IF a < b THEN a ELSE b

SetMin(S) == CHOOSE x \in S : \A y \in S : x <= y

\* ceil(a / b) for b > 0.
CeilDiv(a, b) == IF a >= 0 THEN (a + b - 1) \div b ELSE 0 - ((0 - a) \div b)

\* f64::round of a / b for a >= 0, b > 0: half rounds away from zero.
RoundDiv(a, b) == (2 * a + b) \div (2 * b)

RECURSIVE Pow(_, _)
Pow(b, e) == IF e = 0 THEN 1 ELSE b * Pow(b, e - 1)

RECURSIVE SumV(_, _)
SumV(w, k) == IF k = 0 THEN 0 ELSE w[k].v + SumV(w, k - 1)

\* Number of occurrences of x in seq.
Count(seq, x) == Cardinality({k \in 1..Len(seq) : seq[k] = x})

Range(seq) == {seq[k] : k \in 1..Len(seq)}

\* All orderings of the elements of seq.
Perms(seq) ==
    {p \in [1..Len(seq) -> Range(seq)] : \A x \in Range(seq) : Count(p, x) = Count(seq, x)}

SeqsUpTo(S, n) == UNION {[1..k -> S] : k \in 0..n}

\* ---------------------------------------------------------------- strategies
Frac(n, d) == [num |-> n, den |-> d, finite |-> TRUE]
NonFinite == [num |-> 0, den |-> 1, finite |-> FALSE]

Strat(k, p) == [kind |-> k, p |-> p]

Strategies ==
    {Strat("Random", Frac(0, 1)), Strat("Proportional", Frac(0, 1))}
    \cup {Strat("Normalized", c) : c \in {Frac(0 - 1, 1), Frac(0, 1), Frac(1, 1), NonFinite}}
    \cup {Strat("Percentile", p) :
            p \in {Frac(0, 1), Frac(2, 5), Frac(1, 2), Frac(1, 1), Frac(11, 10), NonFinite}}
    \cup {Strat("RankedLinear", s) : s \in {Frac(0, 1), Frac(1, 2), Frac(1, 1), Frac(3, 2)}}
    \cup {Strat("RankedExponential", m) : m \in {Frac(0, 1), Frac(1, 1), Frac(2, 1)}}

\* (0.0..=1.0).contains(&p)
InUnit(p) == p.finite /\ 0 <= p.num /\ p.num <= p.den

\* The outcome of a call: it panicked, or it returned w.
Abort == [abort |-> TRUE, w |-> <<>>]
Ok(w) == [abort |-> FALSE, w |-> w]

\* ---------------------------------------------------------------- argsort
\* sort_unstable_by(total_cmp): any ordering of the indices that is ascending
\* in the total order; the order of equal scores is not determined.
argsort(scores) ==
    {p \in [1..Len(scores) -> 0..(Len(scores) - 1)] :
        /\ \A i, j \in 1..Len(scores) : i /= j => p[i] /= p[j]
        /\ \A i, j \in 1..Len(scores) : i < j => TotalLe(scores[p[i] + 1], scores[p[j] + 1])}

\* The ascending position (0-based) of index i in the ordering p.
PosOf(p, i) == CHOOSE a \in 0..(Len(p) - 1) : p[a + 1] = i

\* ---------------------------------------------------------------- sample_weight
RandomWeight(scores) == {Ok([i \in 1..Len(scores) |-> Num(Scale)])}

\* ProportionalWeight taking the magnitude of every score.
ProportionalWeightAbs(scores) ==
    {Ok([i \in 1..Len(scores) |->
            Num(Scale * (IF scores[i].nan THEN 1
                         ELSE IF scores[i].v < 0 THEN 0 - scores[i].v ELSE scores[i].v))])}

ProportionalWeight(scores) ==
    {Ok([i \in 1..Len(scores) |-> Num(Scale * Max0(scores[i]).v)])}

\* PercentileCutoff rounding up instead of to the nearest integer.
PercentileCutoffCeil(p, n) == Min2(CeilDiv(p.num * n, p.den), n - 1)

\* round(percentile * len), clamped to len - 1.
PercentileCutoff(p, n) == Min2(RoundDiv(p.num * n, p.den), n - 1)

\* select_nth_unstable_by(k, total_cmp): the score at ascending position k.
SelectNth(scores, k) ==
    LET p == CHOOSE q \in argsort(scores) : TRUE IN scores[p[k + 1] + 1]

PercentileWeight(p, scores) ==
    IF ~InUnit(p) THEN {Abort}
    ELSE IF Len(scores) = 0 THEN {Abort}
    ELSE LET cutoff == SelectNth(scores, PercentileCutoff(p, Len(scores)))
         IN  {Ok([i \in 1..Len(scores) |->
                    Num(IF Ge(scores[i], cutoff) THEN Scale ELSE 0)])}

\* ceil(Scale * sqrt(x / y)) for x >= 0, y > 0.
CeilSqrt(x, y, bound) ==
    CHOOSE r \in 0..bound :
        /\ r * r * y >= Scale * Scale * x
        /\ (r = 0 \/ (r - 1) * (r - 1) * y < Scale * Scale * x)

\* floor(Scale * sqrt(x / y)) for x >= 0, y > 0.
FloorSqrt(x, y, bound) ==
    CHOOSE r \in 0..bound :
        /\ r * r * y <= Scale * Scale * x
        /\ (r + 1) * (r + 1) * y > Scale * Scale * x

\* NormalizedWeight without the assertion on the cutoff: a NaN cutoff gives
\* NaN.max(0.0) = 0.0 everywhere.
NormalizedWeightUnchecked(c, scores) == {Ok([i \in 1..Len(scores) |-> Num(0)])}

NormalizedWeight(c, scores) ==
    IF ~c.finite THEN {Abort}
    ELSE LET n == Len(scores)
             sum == SumV(scores, n)
             \* n * (x - mean)
             d(i) == n * scores[i].v - sum
             sq == [i \in 1..n |-> Num(d(i) * d(i))]
             \* n^3 * var
             V == SumV(sq, n)
             \* Scale * (x - mean) / std, rounded up
             z(i) == IF d(i) >= 0 THEN CeilSqrt(d(i) * d(i) * n, V, Scale * (n + 1))
                     ELSE 0 - FloorSqrt(d(i) * d(i) * n, V, Scale * (n + 1))
             cut == (Scale * c.num) \div c.den
         IN  IF (\E i \in 1..n : scores[i].nan) \/ V = 0
             \* the mean or 0.0 / 0.0 is NaN, and NaN.max(0.0) is 0.0
             THEN {Ok([i \in 1..n |-> Num(0)])}
             ELSE {Ok([i \in 1..n |-> Max0(Num(z(i) - cut))])}

\* LinearWeight with the sign of the pressure reversed.
LinearWeightFlipped(sp, n, rank) ==
    IF n = 1 THEN CeilDiv(Scale * (sp.den - sp.num), sp.den)
    ELSE CeilDiv(Scale * (sp.den * (n - 1) - sp.num * (n - 1) + 2 * sp.num * rank),
                 sp.den * (n - 1))

\* 1 + pressure - 2 * pressure * rank * div_n, where div_n is 0 for a
\* population of one and 1 / (len - 1) otherwise.
LinearWeight(sp, n, rank) ==
    IF n = 1 THEN CeilDiv(Scale * (sp.den + sp.num), sp.den)
    ELSE CeilDiv(Scale * (sp.den * (n - 1) + sp.num * (n - 1) - 2 * sp.num * rank),
                 sp.den * (n - 1))

RankedLinearWeight(sp, scores) ==
    IF ~InUnit(sp) THEN {Abort}
    \* (len - 1) on an empty vector: an overflow panic when overflow checks
    \* are on, a wrapped value that is never used when they are off.
    ELSE IF Len(scores) = 0 THEN {Abort, Ok(<<>>)}
    ELSE {Ok([i \in 1..Len(scores) |->
                Num(LinearWeight(sp, Len(scores), Len(scores) - 1 - PosOf(p, i - 1)))])
            : p \in argsort(scores)}

\* exp(-ln(2) * rank / median) = 2 ^ (-rank / median), rounded up.
ExponentialWeight(median, rank) ==
    CHOOSE r \in 1..Scale :
        /\ Pow(r, median) * Pow(2, rank) >= Pow(Scale, median)
        /\ (r = 1 \/ Pow(r - 1, median) * Pow(2, rank) < Pow(Scale, median))

RankedExponentialWeight(m, scores) ==
    IF m.num = 0 THEN {Abort}
    ELSE {Ok([i \in 1..Len(scores) |->
                Num(ExponentialWeight(m.num, Len(scores) - 1 - PosOf(p, i - 1)))])
            : p \in argsort(scores)}

sample_weight(s, scores) ==
    CASE s.kind = "Random" -> RandomWeight(scores)
      [] s.kind = "Proportional" -> ProportionalWeight(scores)
      [] s.kind = "Normalized" -> NormalizedWeight(s.p, scores)
      [] s.kind = "Percentile" -> PercentileWeight(s.p, scores)
      [] s.kind = "RankedLinear" -> RankedLinearWeight(s.p, scores)
      [] s.kind = "RankedExponential" -> RankedExponentialWeight(s.p, scores)

\* ---------------------------------------------------------------- pdf
\* The trait's pdf: every weight times 1 / sum.  With sum = 0 the factor is
\* +inf and 0.0 * inf is NaN.
pdf_default(s, scores) ==
    {IF o.abort THEN Abort
     ELSE LET sum == SumV(o.w, Len(o.w))
          IN  Ok([i \in 1..Len(o.w) |->
                    IF sum = 0 THEN NaN ELSE Num(CeilDiv(Scale * o.w[i].v, sum))])
        : o \in sample_weight(s, scores)}

\* Random's own pdf: 1 / len everywhere, the empty vector unchanged.
pdf_random(scores) ==
    {Ok([i \in 1..Len(scores) |-> Num(CeilDiv(Scale, Len(scores)))])}

pdf(s, scores) == IF s.kind = "Random" THEN pdf_random(scores) ELSE pdf_default(s, scores)

\* ---------------------------------------------------------------- sampling
\* choose_multiple_weighted with the offset drawn from the whole sum instead
\* of one step, pointers past the end going to the last index drawn.
choose_multiple_weighted_wide(amount, weights, r) ==
    LET n == Len(weights)
        S == SumV(weights, n)
        last == CHOOSE i \in 0..(n - 1) :
                    weights[i + 1].v > 0 /\ \A j \in (i + 1)..(n - 1) : weights[j + 1].v = 0
        pick(k) == IF (r * amount + k * RngDen) >= RngDen * amount THEN last
                   ELSE CHOOSE i \in 0..(n - 1) :
                        /\ SumV(weights, i) * RngDen * amount <= (r * amount + k * RngDen) * S
                        /\ (r * amount + k * RngDen) * S < SumV(weights, i + 1) * RngDen * amount
    IN  IF amount = 0 \/ S = 0 THEN <<>> ELSE [k \in 1..amount |-> pick(k - 1)]

\* Stochastic universal sampling, one uniform offset u = (r / RngDen) * S / amount
\* and pointers u + k * S / amount; pointer k selects the index i whose
\* cumulative interval [c(i), c(i + 1)) contains it.  All-zero weights give
\* the empty result.
choose_multiple_weighted(amount, weights, r) ==
    LET n == Len(weights)
        S == SumV(weights, n)
        pick(k) == CHOOSE i \in 0..(n - 1) :
                        /\ SumV(weights, i) * RngDen * amount <= (r + k * RngDen) * S
                        /\ (r + k * RngDen) * S < SumV(weights, i + 1) * RngDen * amount
    IN  IF amount = 0 \/ S = 0 THEN <<>> ELSE [k \in 1..amount |-> pick(k - 1)]

\* The outcome of select: aborted or not, whether the random source was
\* used, the weights (<<>> when sample_weight was not called), the indices.
SelOut(a, smp, w, idx) == [abort |-> a, sampled |-> smp, w |-> w, idx |-> idx]

\* rand::seq::index::sample(rng, length, amount): amount distinct indices.
IndexSample(length, amount) ==
    {q \in [1..amount -> 0..(length - 1)] : \A i, j \in 1..amount : i /= j => q[i] /= q[j]}

\* RandomFill drawing the rest with replacement.
RECURSIVE RandomFillReplacing(_, _, _)
RandomFillReplacing(indices, amount, n) ==
    IF Len(indices) >= amount THEN {indices}
    ELSE LET remaining == amount - Len(indices)
         IN  IF remaining >= n
             THEN RandomFillReplacing(indices \o [i \in 1..n |-> i - 1], amount, n)
             ELSE UNION {RandomFillReplacing(indices \o q, amount, n)
                            : q \in [1..remaining -> 0..(n - 1)]}

\* The loop of Random::select: whole copies of 0..len while at least len
\* indices are missing, then a sample without replacement of the rest.
RECURSIVE RandomFill(_, _, _)
RandomFill(indices, amount, n) ==
    IF Len(indices) >= amount THEN {indices}
    ELSE LET remaining == amount - Len(indices)
         IN  IF remaining >= n
             THEN RandomFill(indices \o [i \in 1..n |-> i - 1], amount, n)
             ELSE UNION {RandomFill(indices \o q, amount, n) : q \in IndexSample(n, remaining)}

\* select_random drawing every index independently.
select_random_naive(amount, scores) ==
    IF amount = 0 \/ Len(scores) = 0 THEN {SelOut(FALSE, FALSE, <<>>, <<>>)}
    ELSE {SelOut(FALSE, TRUE, <<>>, p) : p \in [1..amount -> 0..(Len(scores) - 1)]}

\* Random::select, ending with indices.shuffle(rng).
select_random(amount, scores) ==
    IF amount = 0 \/ Len(scores) = 0 THEN {SelOut(FALSE, FALSE, <<>>, <<>>)}
    ELSE {SelOut(FALSE, TRUE, <<>>, p) :
            p \in UNION {Perms(f) : f \in RandomFill(<<>>, amount, Len(scores))}}

\* select_default without the early return on empty input.
select_default_unguarded(s, amount, scores) ==
    UNION {IF o.abort THEN {SelOut(TRUE, FALSE, <<>>, <<>>)}
           ELSE {SelOut(FALSE, TRUE, o.w, choose_multiple_weighted(amount, o.w, r))
                   : r \in 0..(RngDen - 1)}
             : o \in sample_weight(s, scores)}

\* The trait's select.
select_default(s, amount, scores) ==
    IF amount = 0 \/ Len(scores) = 0 THEN {SelOut(FALSE, FALSE, <<>>, <<>>)}
    ELSE UNION {IF o.abort THEN {SelOut(TRUE, FALSE, <<>>, <<>>)}
                ELSE {SelOut(FALSE, TRUE, o.w, choose_multiple_weighted(amount, o.w, r))
                        : r \in 0..(RngDen - 1)}
                  : o \in sample_weight(s, scores)}

select(s, amount, scores) ==
    IF s.kind = "Random" THEN select_random(amount, scores)
    ELSE select_default(s, amount, scores)

\* ---------------------------------------------------------------- reduce_repeats
Swap(data, a, b) ==
    [k \in 1..Len(data) |-> IF k = a + 1 THEN data[b + 1]
                            ELSE IF k = b + 1 THEN data[a + 1] ELSE data[k]]

\* Candidates accepting a pair as soon as one of its elements differs from
\* value.
CandidatesEither(data, value, from, to) ==
    {s \in from..to : s % 2 = 0 /\ (data[s + 1] /= value \/ data[s + 2] /= value)}

\* The pairs (by the index of their first element) that the search at cursor
\* may swap with: neither element equals value.
Candidates(data, value, from, to) ==
    {s \in from..to : s % 2 = 0 /\ data[s + 1] /= value /\ data[s + 2] /= value}

\* ReduceAt searching only the pairs after the cursor.
ReduceAtForwardOnly(data, cursor) ==
    LET value == data[cursor + 1]
        fwd == Candidates(data, value, cursor + 2, Len(data) - 1)
    IN  IF value /= data[cursor + 2] THEN data
        ELSE IF fwd /= {} THEN Swap(data, cursor, SetMin(fwd))
        ELSE data

\* ReduceAt copying the found element over the cursor instead of swapping.
ReduceAtOverwrite(data, cursor) ==
    LET value == data[cursor + 1]
        fwd == Candidates(data, value, cursor + 2, Len(data) - 1)
        bwd == Candidates(data, value, 0, cursor - 1)
        put(src) == [data EXCEPT ![cursor + 1] = data[src + 1]]
    IN  IF value /= data[cursor + 2] THEN data
        ELSE IF fwd /= {} THEN put(SetMin(fwd))
        ELSE IF bwd /= {} THEN put(SetMin(bwd))
        ELSE data

\* One iteration of the outer loop of reduce_repeats.
ReduceAt(data, cursor) ==
    LET value == data[cursor + 1]
        fwd == Candidates(data, value, cursor + 2, Len(data) - 1)
        bwd == Candidates(data, value, 0, cursor - 1)
    IN  IF value /= data[cursor + 2] THEN data
        ELSE IF fwd /= {} THEN Swap(data, cursor, SetMin(fwd))
        ELSE IF bwd /= {} THEN Swap(data, cursor, SetMin(bwd))
        ELSE data

\* The whole pass, from cursor on.
RECURSIVE reduce_repeats(_, _)
reduce_repeats(data, cursor) ==
    IF cursor >= Len(data) THEN data
    ELSE reduce_repeats(ReduceAt(data, cursor), cursor + 2)

is_even(x) == x % 2 = 0

\* The vector of len / 2 pairs over the same buffer.
transmute_vec_to_pairs(data) == [k \in 1..(Len(data) \div 2) |-> <<data[2 * k - 1], data[2 * k]>>]

\* ---------------------------------------------------------------- state
VARIABLES
    op,         \* the operation called: "transform", "pdf", "select", "pairs"
    strategy,   \* self
    scores,     \* argument scores
    amount,     \* argument amount
    pc,         \* "call", "reduce" (inside reduce_repeats), "done", "aborted"
    sampled,    \* the random source or the sampler has been used
    weights,    \* the result of sample_weight, <<>> before it is called
    selected,   \* the result of select
    data,       \* the buffer reduce_repeats works on
    cursor,     \* the cursor of reduce_repeats' outer loop
    pairsOut,   \* the result of pairs
    pdfOut      \* the result of pdf

vars == <<op, strategy, scores, amount, pc, sampled, weights, selected, data, cursor,
          pairsOut, pdfOut>>

Ops == {"transform", "pdf", "select", "pairs"}

Init ==
    /\ op \in Ops
    /\ strategy \in Strategies
    /\ scores \in SeqsUpTo(ScoreVals, MaxPop)
    /\ amount \in 0..MaxAmount
    /\ (op \in {"transform", "pdf"} => amount = 0)
    /\ pc = "call"
    /\ sampled = FALSE
    /\ weights = <<>>
    /\ selected = <<>>
    /\ data = <<>>
    /\ cursor = 0
    /\ pairsOut = <<>>
    /\ pdfOut = <<>>

\* transform: sample_weight(scores).
Transform ==
    /\ pc = "call" /\ op = "transform"
    /\ \E o \in sample_weight(strategy, scores) :
        /\ pc' = IF o.abort THEN "aborted" ELSE "done"
        /\ weights' = o.w
    /\ UNCHANGED <<op, strategy, scores, amount, sampled, selected, data, cursor,
                   pairsOut, pdfOut>>

\* pdf(scores).
Pdf ==
    /\ pc = "call" /\ op = "pdf"
    /\ \E o \in pdf(strategy, scores) :
        /\ pc' = IF o.abort THEN "aborted" ELSE "done"
        /\ pdfOut' = o.w
    /\ UNCHANGED <<op, strategy, scores, amount, sampled, weights, selected, data, cursor,
                   pairsOut>>

\* select(rng, amount, scores).
Select ==
    /\ pc = "call" /\ op = "select"
    /\ \E o \in select(strategy, amount, scores) :
        /\ pc' = IF o.abort THEN "aborted" ELSE "done"
        /\ sampled' = o.sampled
        /\ weights' = o.w
        /\ selected' = o.idx
    /\ UNCHANGED <<op, strategy, scores, amount, data, cursor, pairsOut, pdfOut>>

\* PairsSelect asking select for amount indices instead of amount * 2.
PairsSelectSingle ==
    /\ pc = "call" /\ op = "pairs"
    /\ \E o \in select(strategy, amount, scores) :
        /\ pc' = IF o.abort THEN "aborted" ELSE "reduce"
        /\ sampled' = o.sampled
        /\ weights' = o.w
        /\ selected' = o.idx
        /\ data' = o.idx
    /\ cursor' = 0
    /\ UNCHANGED <<op, strategy, scores, amount, pairsOut, pdfOut>>

\* pairs(rng, amount, scores), up to the call of reduce_repeats.
PairsSelect ==
    /\ pc = "call" /\ op = "pairs"
    /\ \E o \in select(strategy, amount * 2, scores) :
        /\ pc' = IF o.abort THEN "aborted" ELSE "reduce"
        /\ sampled' = o.sampled
        /\ weights' = o.w
        /\ selected' = o.idx
        /\ data' = o.idx
    /\ cursor' = 0
    /\ UNCHANGED <<op, strategy, scores, amount, pairsOut, pdfOut>>

\* One iteration of the outer loop of reduce_repeats.  An odd length fails
\* the debug assertion, or the bounds check of data[cursor + 1] without it.
ReduceStep ==
    /\ pc = "reduce" /\ cursor < Len(data)
    /\ IF is_even(Len(data))
       THEN /\ data' = ReduceAt(data, cursor)
            /\ cursor' = cursor + 2
            /\ pc' = pc
       ELSE /\ pc' = "aborted"
            /\ UNCHANGED <<data, cursor>>
    /\ UNCHANGED <<op, strategy, scores, amount, sampled, weights, selected,
                   pairsOut, pdfOut>>

\* The end of pairs: reduce_repeats has returned, the buffer becomes pairs.
Transmute ==
    /\ pc = "reduce" /\ cursor >= Len(data)
    /\ pc' = IF is_even(Len(data)) THEN "done" ELSE "aborted"
    /\ pairsOut' = IF is_even(Len(data)) THEN transmute_vec_to_pairs(data) ELSE <<>>
    /\ UNCHANGED <<op, strategy, scores, amount, sampled, weights, selected, data, cursor,
                   pdfOut>>

Next == Transform \/ Pdf \/ Select \/ PairsSelect \/ ReduceStep \/ Transmute

Spec == Init /\ [][Next]_vars

\* reduce_repeats and transmute_vec_to_pairs on every even-length sequence of
\* indices, as the second half of pairs.
DrawSeqs == UNION {[1..(2 * k) -> 0..(MaxPop - 1)] : k \in 0..MaxAmount}

InitReduce ==
    /\ op = "pairs"
    /\ strategy = Strat("Random", Frac(0, 1))
    /\ scores = [i \in 1..MaxPop |-> Num(1)]
    /\ data \in DrawSeqs
    /\ selected = data
    /\ amount = Len(data) \div 2
    /\ pc = "reduce"
    /\ sampled = TRUE
    /\ weights = <<>>
    /\ cursor = 0
    /\ pairsOut = <<>>
    /\ pdfOut = <<>>

NextReduce == ReduceStep \/ Transmute

SpecReduce == InitReduce /\ [][NextReduce]_vars

\* ---------------------------------------------------------------- properties
\* The number of indices pairs or select asks for.
Amt == IF op = "pairs" THEN 2 * amount ELSE amount

\* select has returned (for pairs: the call of select inside it).
Returned == op \in {"select", "pairs"} /\ pc \in {"reduce", "done"}

\* sample_weight has returned a weight for every individual.
Weighed == Len(scores) >= 1 /\ Len(weights) = Len(scores)

Positive(w) == ~w.nan /\ w.v > 0

Flatten(pairs) ==
    [k \in 1..(2 * Len(pairs)) |-> pairs[(k + 1) \div 2][IF k % 2 = 1 THEN 1 ELSE 2]]

SameMultiset(a, b) ==
    /\ Len(a) = Len(b)
    /\ \A x \in Range(a) \cup Range(b) : Count(a, x) = Count(b, x)

\* C1: at every step of reduce_repeats the buffer is a permutation of the
\* sequence select returned, and the flattened result of pairs is a
\* permutation of it too.
C1_ReducePermutes ==
    (op = "pairs" /\ pc \in {"reduce", "done"}) =>
        /\ SameMultiset(data, selected)
        /\ (pc = "done" => SameMultiset(Flatten(pairsOut), selected))

\* A pass that swapped something has finished on at least two pairs.
C1_Witness == pc = "done" /\ Len(pairsOut) >= 2 /\ Flatten(pairsOut) /= selected

\* C2: with amount = 0 or no scores, select and pairs never abort and
\* return the empty result, whatever the strategy.
C2_EmptyInput ==
    (op \in {"select", "pairs"} /\ (amount = 0 \/ Len(scores) = 0)) =>
        /\ pc /= "aborted"
        /\ selected = <<>>
        /\ pairsOut = <<>>
        /\ (pc = "done" => ~sampled)

\* pairs has returned for an empty population, under a strategy whose
\* weight transform cannot handle an empty vector.
C2_Witness ==
    /\ op = "pairs" /\ pc = "done" /\ amount >= 1 /\ Len(scores) = 0
    /\ strategy.kind = "Percentile"

\* One of the weights is positive (Random draws as if every weight were 1).
SomePositive ==
    strategy.kind = "Random" \/ (Weighed /\ \E i \in 1..Len(weights) : Positive(weights[i]))

\* C3: with a population n >= 1, amount >= 1 and a positive weight, select
\* returns amount indices and pairs returns amount pairs, all in [0, n).
C3_AmountAndRange ==
    (op \in {"select", "pairs"} /\ pc = "done" /\ Len(scores) >= 1 /\ amount >= 1
        /\ SomePositive) =>
        /\ Len(selected) = Amt
        /\ \A k \in 1..Len(selected) : selected[k] \in 0..(Len(scores) - 1)
        /\ (op = "pairs" =>
                /\ Len(pairsOut) = amount
                /\ \A k \in 1..Len(pairsOut) :
                        /\ pairsOut[k][1] \in 0..(Len(scores) - 1)
                        /\ pairsOut[k][2] \in 0..(Len(scores) - 1))

\* pairs has returned the largest amount on the largest population, from
\* weights that are not all equal.
C3_Witness ==
    /\ op = "pairs" /\ pc = "done" /\ amount = MaxAmount /\ Len(scores) = MaxPop
    /\ Weighed /\ Len(pairsOut) = amount
    /\ \E i, j \in 1..Len(weights) : Positive(weights[i]) /\ weights[i] /= weights[j]

\* C4: an index of weight 0 is in no result of select or pairs, and under
\* Proportional a negative or NaN score has weight 0 and is in no result.
C4_ZeroWeightNeverDrawn ==
    /\ (Returned /\ Weighed) =>
            /\ \A k \in 1..Len(selected) : Positive(weights[selected[k] + 1])
            /\ \A k \in 1..Len(data) : Positive(weights[data[k] + 1])
            /\ \A k \in 1..Len(pairsOut) :
                    Positive(weights[pairsOut[k][1] + 1]) /\ Positive(weights[pairsOut[k][2] + 1])
    /\ (strategy.kind = "Proportional" /\ Weighed) =>
            \A i \in 1..Len(scores) :
                (scores[i].nan \/ scores[i].v < 0) =>
                    /\ weights[i] = Num(0)
                    /\ \A k \in 1..Len(selected) : selected[k] /= i - 1
                    /\ \A k \in 1..Len(pairsOut) :
                            pairsOut[k][1] /= i - 1 /\ pairsOut[k][2] /= i - 1

\* Proportional has returned pairs for scores with a NaN and a negative one.
C4_Witness ==
    /\ op = "pairs" /\ pc = "done" /\ strategy.kind = "Proportional"
    /\ Len(pairsOut) = amount /\ amount >= 1
    /\ \E i, j \in 1..Len(scores) : scores[i].nan /\ ~scores[j].nan /\ scores[j].v < 0

\* C5: the sampler draws index i either floor(amount * w_i / S) or
\* ceil(amount * w_i / S) times, for every offset.
C5_WithinOneOfShare ==
    (Returned /\ Weighed /\ SumV(weights, Len(weights)) > 0) =>
        \A i \in 1..Len(weights) :
            LET c == Count(selected, i - 1)
                S == SumV(weights, Len(weights))
            IN  /\ c * S > Amt * weights[i].v - S
                /\ c * S < Amt * weights[i].v + S

\* A draw where some share is not an integer and both roundings of it occur
\* among the indices: one index is above its share, another below.
C5_Witness ==
    /\ Returned /\ Weighed /\ pc = "done"
    /\ \E i, j \in 1..Len(weights) :
        LET S == SumV(weights, Len(weights))
        IN  /\ Count(selected, i - 1) * S > Amt * weights[i].v
            /\ Count(selected, j - 1) * S < Amt * weights[j].v

\* C6: Random asked for amount >= n indices returns every index at least
\* floor(amount / n) times.
C6_RandomCoverage ==
    (Returned /\ strategy.kind = "Random" /\ Len(scores) >= 1 /\ Amt >= Len(scores)) =>
        \A i \in 0..(Len(scores) - 1) : Count(selected, i) >= Amt \div Len(scores)

\* Random has returned an amount that is not a multiple of the population.
C6_Witness ==
    /\ Returned /\ pc = "done" /\ strategy.kind = "Random"
    /\ Len(scores) >= 2 /\ Amt > Len(scores) /\ Amt % Len(scores) /= 0
    /\ Len(selected) = Amt

\* The score t is at ascending position k (0-based) of the total order.
AtRank(t, k) ==
    /\ Cardinality({i \in 1..Len(scores) : ~TotalLe(t, scores[i])}) <= k
    /\ k < Cardinality({i \in 1..Len(scores) : TotalLe(scores[i], t)})

\* The weights are 1 for the scores that compare >= t and 0 for the others.
ThresholdWeights(t) ==
    \A i \in 1..Len(scores) : weights[i] = Num(IF Ge(scores[i], t) THEN Scale ELSE 0)

\* The scores are pairwise different numbers.
DistinctNumbers ==
    /\ \A i \in 1..Len(scores) : ~scores[i].nan
    /\ \A i, j \in 1..Len(scores) : i /= j => scores[i] /= scores[j]

Eligible == Cardinality({i \in 1..Len(weights) : weights[i] = Num(Scale)})

\* A valid Percentile has returned weights.
PercentileWeighed == strategy.kind = "Percentile" /\ InUnit(strategy.p) /\ Weighed

\* The threshold rank with the product rounded up: min(ceil(p * N), N - 1).
CeilRank ==
    LET c == CHOOSE c \in 0..Len(scores) :
                /\ c * strategy.p.den >= strategy.p.num * Len(scores)
                /\ (c - 1) * strategy.p.den < strategy.p.num * Len(scores)
    IN  Min2(c, Len(scores) - 1)

\* The threshold rank with the product rounded to the nearest integer, half
\* away from zero: min(round(p * N), N - 1).
RoundRank ==
    LET c == CHOOSE c \in 0..Len(scores) :
                /\ 2 * c * strategy.p.den - strategy.p.den <= 2 * strategy.p.num * Len(scores)
                /\ 2 * strategy.p.num * Len(scores) < 2 * c * strategy.p.den + strategy.p.den
    IN  Min2(c, Len(scores) - 1)

\* C7 as stated: the threshold of Percentile(p) is the score at ascending
\* rank min(ceil(p * N), N - 1), the weight is 1 for score >= threshold and 0
\* otherwise, and N distinct scores leave N - min(ceil(p * N), N - 1) eligible.
C7_CeilThreshold ==
    PercentileWeighed =>
        /\ \E t \in Range(scores) : AtRank(t, CeilRank) /\ ThresholdWeights(t)
        /\ ((\A i, j \in 1..Len(scores) : i /= j => scores[i] /= scores[j])
                => Eligible = Len(scores) - CeilRank)

\* C7 amended: the threshold is the score at ascending rank
\* min(round(p * N), N - 1) of the total order (NaN last), the weight is 1 for
\* score >= threshold (false for NaN) and 0 otherwise, and N distinct
\* numbers leave N - min(round(p * N), N - 1) eligible.
C7_RoundThreshold ==
    PercentileWeighed =>
        /\ \E t \in Range(scores) : AtRank(t, RoundRank) /\ ThresholdWeights(t)
        /\ (DistinctNumbers => Eligible = Len(scores) - RoundRank)

\* Percentile has weighed distinct numbers where p * N rounds down.
C7_Witness ==
    /\ PercentileWeighed /\ DistinctNumbers /\ pc = "done"
    /\ RoundRank < CeilRank
    /\ Eligible = Len(scores) - RoundRank

\* C8 as stated: under every strategy a NaN score never gets a positive
\* weight.
C8_NaNNeverPositive ==
    Weighed => \A i \in 1..Len(scores) : scores[i].nan => ~Positive(weights[i])

\* C8 amended: under Proportional, Normalized and Percentile a NaN score
\* never gets a positive weight.
C8_NaNNeverPositiveByValue ==
    (Weighed /\ strategy.kind \in {"Proportional", "Normalized", "Percentile"}) =>
        \A i \in 1..Len(scores) : scores[i].nan => ~Positive(weights[i])

\* Percentile has weighed a NaN score next to an eligible number.
C8_Witness ==
    /\ Weighed /\ pc = "done" /\ strategy.kind = "Percentile"
    /\ \E i, j \in 1..Len(scores) : scores[i].nan /\ Positive(weights[j])

\* RankedLinear with a valid pressure on a population of one.
LinearSingle ==
    strategy.kind = "RankedLinear" /\ InUnit(strategy.p) /\ Len(scores) = 1 /\ pc /= "call"

\* C9 as stated: RankedLinear on a population of one does not abort, the
\* weight is exactly 1, and pairs(1, scores) is the single pair (0, 0).
C9_SingleWeightOne ==
    LinearSingle =>
        /\ pc /= "aborted"
        /\ (Len(weights) = 1 => weights[1] = Num(Scale))
        /\ (op = "pairs" /\ amount = 1 /\ pc = "done" => pairsOut = << <<0, 0>> >>)

\* C9 amended: RankedLinear on a population of one does not abort, the
\* weight is 1 + pressure (to the resolution of the weights), and
\* pairs(1, scores) is the single pair (0, 0).
C9_SingleWeightOnePlusPressure ==
    LinearSingle =>
        /\ pc /= "aborted"
        /\ (Len(weights) = 1 =>
                /\ ~weights[1].nan
                /\ weights[1].v * strategy.p.den >= Scale * (strategy.p.den + strategy.p.num)
                /\ weights[1].v * strategy.p.den
                        < Scale * (strategy.p.den + strategy.p.num) + strategy.p.den)
        /\ (op = "pairs" /\ amount = 1 /\ pc = "done" => pairsOut = << <<0, 0>> >>)

\* pairs(1, scores) has returned under a pressure that is not 0.
C9_Witness ==
    /\ LinearSingle /\ op = "pairs" /\ amount = 1 /\ pc = "done"
    /\ strategy.p.num > 0 /\ pairsOut = << <<0, 0>> >>

\* The parameter of the strategy is outside its domain.
Invalid(s) ==
    CASE s.kind \in {"Percentile", "RankedLinear"} -> ~InUnit(s.p)
      [] s.kind = "Normalized" -> ~s.p.finite
      [] s.kind = "RankedExponential" -> s.p.num = 0
      [] OTHER -> FALSE

\* C10 as stated: with a parameter outside its domain every call aborts
\* before any sampling, also with amount = 0 or no scores.
C10_InvalidAlwaysAborts ==
    (Invalid(strategy) /\ pc /= "call") => (pc = "aborted" /\ ~sampled)

\* C10 amended: with a parameter outside its domain, transform and pdf
\* abort, and select and pairs abort before any sampling when amount >= 1
\* and the scores are not empty; with amount = 0 or no scores, select and
\* pairs return the empty result without validating the parameter.
C10_InvalidAbortsUnlessEmpty ==
    (Invalid(strategy) /\ pc /= "call") =>
        IF op \in {"transform", "pdf"} \/ (amount >= 1 /\ Len(scores) >= 1)
        THEN pc = "aborted" /\ ~sampled /\ selected = <<>> /\ pairsOut = <<>>
                /\ weights = <<>> /\ pdfOut = <<>>
        ELSE pc /= "aborted" /\ ~sampled /\ selected = <<>> /\ pairsOut = <<>>

\* pairs has aborted on a non-finite cutoff, for a population and an amount
\* that are not empty.
C10_Witness ==
    /\ Invalid(strategy) /\ strategy.kind = "Normalized" /\ op = "pairs"
    /\ pc = "aborted" /\ amount >= 1 /\ Len(scores) >= 1

\* The transform gives every individual of a non-empty population weight 0.
AllZeroWeights ==
    /\ Len(scores) >= 1
    /\ \E o \in sample_weight(strategy, scores) :
        ~o.abort /\ \A i \in 1..Len(o.w) : o.w[i] = Num(0)

\* C11: pdf on scores whose weights are all zero is flagged as an error, and
\* pdf never returns a vector that contains NaN.
C11_ZeroSumPdfFlagged ==
    /\ (op = "pdf" /\ pc /= "call" /\ AllZeroWeights) => pc = "aborted"
    /\ (op = "pdf" /\ pc = "done") => \A i \in 1..Len(pdfOut) : ~pdfOut[i].nan

\* C12: with valid parameters the weight transform never aborts and returns
\* as many weights as there are scores, in particular none for no scores.
C12_TransformTotal ==
    (op = "transform" /\ ~Invalid(strategy) /\ pc /= "call") =>
        /\ pc = "done"
        /\ Len(weights) = Len(scores)

\* The pair of data that starts at the even index c is a self-pair.
SelfPair(d, c) == d[c + 1] = d[c + 2]

\* The indices at which the pairs of d start.
PairStarts(d) == {c \in 0..(Len(d) - 2) : c % 2 = 0}

SelfPairs(d) == {c \in PairStarts(d) : SelfPair(d, c)}

\* C13: when reduce_repeats has finished and a self-pair of value v is left,
\* every pair contains v; so a result where no index occurs more than
\* len / 2 times has no self-pair.
C13_LeftoverOnlyWhenUnavoidable ==
    (op = "pairs" /\ pc = "done") =>
        LET out == Flatten(pairsOut)
        IN  /\ \A c \in SelfPairs(out) :
                    \A e \in PairStarts(out) : out[e + 1] = out[c + 1] \/ out[e + 2] = out[c + 1]
            /\ ((\A x \in Range(selected) : 2 * Count(selected, x) <= Len(selected))
                    => SelfPairs(out) = {})

\* A pass has finished with a self-pair left next to a pair that is not one.
C13_Witness ==
    /\ op = "pairs" /\ pc = "done"
    /\ SelfPairs(data) /= {} /\ SelfPairs(data) /= PairStarts(data)

\* C14: a step of reduce_repeats that changes the buffer turns the self-pair
\* at the cursor into a pair that is not one, no step makes a self-pair out
\* of a pair that was not one, and the number of self-pairs never grows.
C14_SwapsNeverCreateSelfPairs ==
    [][(pc = "reduce" /\ op = "pairs") =>
            /\ (data' /= data => SelfPair(data, cursor) /\ ~SelfPair(data', cursor))
            /\ SelfPairs(data') \subseteq SelfPairs(data)
            /\ Cardinality(SelfPairs(data')) <= Cardinality(SelfPairs(data))
            /\ (pc' = "done" => SelfPairs(Flatten(pairsOut')) \subseteq SelfPairs(selected))]_vars

\* The pass is under way and has swapped a self-pair away.
C14_Witness ==
    /\ op = "pairs" /\ pc = "reduce" /\ cursor >= 2
    /\ Cardinality(SelfPairs(data)) < Cardinality(SelfPairs(selected))

\* C15: under Random with a population of at least two, pairs never returns
\* a self-pair.
C15_RandomNoSelfPair ==
    (op = "pairs" /\ pc = "done" /\ strategy.kind = "Random" /\ Len(scores) >= 2
        /\ amount >= 1) =>
        /\ Len(pairsOut) = amount
        /\ \A k \in 1..Len(pairsOut) : pairsOut[k][1] /= pairsOut[k][2]

\* Random has returned pairs that reduce_repeats had to repair.
C15_Witness ==
    /\ op = "pairs" /\ pc = "done" /\ strategy.kind = "Random" /\ Len(scores) >= 2
    /\ SelfPairs(selected) /= {} /\ Len(pairsOut) = amount

====
